---- MODULE Spec2Model ----
(***************************************************************************)
(* VelociTrack: the /1d/ and /3d/ query endpoints, the two text formatters *)
(* (VELEST profile format and pipe-delimited grid format) and the import   *)
(* script, modelled from src/src/velocitrack/main.py and                   *)
(* src/scripts/import_data.py.                                             *)
(*                                                                         *)
(* Floats of the 1D tables (depth, velocity) are sign-magnitude values     *)
(* [neg, mag] in units of 1/256, so that every value is an exact binary    *)
(* float, negative zero is a value of its own, and 2559/256 = 9.99609375   *)
(* rounds upward at two decimals.  Floats of the 3D tables are integers in *)
(* units of 1/2; an absent scale factor (NULL) is the value None.          *)
(* Text is built as TLA+ strings: a line is the sequence of the pieces of  *)
(* the f-string that makes it, and the response body is the pieces         *)
(* concatenated and the lines joined by newlines.                          *)
(***************************************************************************)
EXTENDS Integers, Sequences, FiniteSets, TLC

(***************************************************************************)
(* Bounds of the model.                                                    *)
(***************************************************************************)
\* longest record list handed to a formatter
MaxLen == 3
\* largest total_count, offset and limit handed to a formatter directly
MaxCount == 4

(***************************************************************************)
(* Numbers as text.                                                        *)
(***************************************************************************)
\* 1D floats are multiples of 1/256 (Float columns)
DepthUnit == 16 * 16

Digit(d) ==
    CASE d = 0 -> "0" [] d = 1 -> "1" [] d = 2 -> "2" [] d = 3 -> "3"
      [] d = 4 -> "4" [] d = 5 -> "5" [] d = 6 -> "6" [] d = 7 -> "7"
      [] d = 8 -> "8" [] d = 9 -> "9"

\* str(n) of an int, as an f-string {n} renders it
RECURSIVE IntStr(_)
IntStr(n) ==
    IF n < 0 THEN "-" \o IntStr(0 - n)
    ELSE IF n < 10 THEN Digit(n)
    ELSE IntStr(n \div 10) \o Digit(n % 10)

RECURSIVE Spaces(_)
Spaces(n) == IF n <= 0 THEN "" ELSE " " \o Spaces(n - 1)

\* a float of the 1D tables
F(neg, mag) == [neg |-> neg, mag |-> mag]

\* the value compared by <, >= and by the sort key (-0.0 == 0.0)
Val(x) == IF x.neg THEN 0 - x.mag ELSE x.mag

\* the value in hundredths, correctly rounded, ties to even
Hundredths(x) ==
    LET q == (x.mag * 100) \div DepthUnit
        r == (x.mag * 100) % DepthUnit
    IN  IF 2 * r > DepthUnit \/ (2 * r = DepthUnit /\ q % 2 = 1) THEN q + 1 ELSE q

\* f"{x:W.2f}": sign, integer part, point, two decimals, padded on the left
\* with spaces to at least `width` characters
Fmt2(x, width) ==
    LET h    == Hundredths(x)
        body == (IF x.neg THEN "-" ELSE "") \o IntStr(h \div 100) \o "."
                \o Digit((h % 100) \div 10) \o Digit(h % 10)
    IN  Spaces(width - Len(body)) \o body

\* a string stored as its characters (for ILIKE matching) rendered as text
RECURSIVE StrOf(_)
StrOf(cs) == IF cs = <<>> THEN "" ELSE Head(cs) \o StrOf(Tail(cs))

\* the text of a line: its pieces concatenated
RECURSIVE Text(_)
Text(line) == IF line = <<>> THEN "" ELSE Head(line) \o Text(Tail(line))

\* "\n".join(lines)
RECURSIVE Join(_)
Join(lines) ==
    IF lines = <<>> THEN ""
    ELSE IF Len(lines) = 1 THEN Text(lines[1])
    ELSE Text(Head(lines)) \o "\n" \o Join(Tail(lines))

(***************************************************************************)
(* create_text_response_1d                                                 *)
(***************************************************************************)
\* [m for m in models if m.wave_type == wt]
RECURSIVE SelectWave(_, _)
SelectWave(models, wt) ==
    IF models = <<>> THEN <<>>
    ELSE IF Head(models).wave_type = wt
         THEN <<Head(models)>> \o SelectWave(Tail(models), wt)
         ELSE SelectWave(Tail(models), wt)

\* InsertByDepth that puts m in front of the records of its own depth
RECURSIVE InsertByDepthBefore(_, _)
InsertByDepthBefore(s, m) ==
    IF s = <<>> THEN <<m>>
    ELSE IF Val(Head(s).depth) < Val(m.depth)
         THEN <<Head(s)>> \o InsertByDepthBefore(Tail(s), m)
         ELSE <<m>> \o s

\* insert m into the depth-sorted list s behind every record of depth <= its own
RECURSIVE InsertByDepth(_, _)
InsertByDepth(s, m) ==
    IF s = <<>> THEN <<m>>
    ELSE IF Val(Head(s).depth) <= Val(m.depth)
         THEN <<Head(s)>> \o InsertByDepth(Tail(s), m)
         ELSE <<m>> \o s

\* list.sort(key=lambda x: x.depth): ascending, stable
RECURSIVE SortByDepthFrom(_, _)
SortByDepthFrom(done, rest) ==
    IF rest = <<>> THEN done
    ELSE SortByDepthFrom(InsertByDepth(done, Head(rest)), Tail(rest))

SortByDepth(ms) == SortByDepthFrom(<<>>, ms)

\* The list objects of one call.  heap[o] holds the elements of list object o
\* and frame the object each local name is bound to (0 before its assignment).
\* Object 1 is the list the caller passed: the parameter models is bound to
\* it, and the caller goes on holding it after the call.
Entered(ms) ==
    [heap |-> <<ms>>, frame |-> [models |-> 1, vp_models |-> 0, vs_models |-> 0]]

\* target = [m for m in models if m.wave_type == wt]: the comprehension builds
\* a new list object and binds target to it
Comprehension(st, target, wt) ==
    [heap |-> Append(st.heap, SelectWave(st.heap[st.frame.models], wt)),
     frame |-> [st.frame EXCEPT ![target] = Len(st.heap) + 1]]

\* ListSort applied to the object models is bound to, whatever its target
ListSortOfModels(st, target) ==
    [st EXCEPT !.heap[st.frame.models] = SortByDepth(@)]

\* target.sort(key=lambda x: x.depth): list.sort reorders, in place, the
\* object target is bound to
ListSort(st, target) ==
    [st EXCEPT !.heap[st.frame[target]] = SortByDepth(@)]

\* the two comprehensions and the two sorts, in statement order
Body1D(ms) ==
    ListSort(ListSort(Comprehension(Comprehension(Entered(ms), "vp_models", "VP"),
                                    "vs_models", "VS"),
                      "vp_models"),
             "vs_models")

\* the lists the sections are written from, as the sorts left them
vp_models(models) == LET st == Body1D(models) IN st.heap[st.frame.vp_models]
vs_models(models) == LET st == Body1D(models) IN st.heap[st.frame.vs_models]

\* the title line of either formatter
TitleLine(prefix, models, bibref) ==
    IF bibref # "" THEN <<prefix, StrOf(models[1].nfo), " ", bibref>>
    ELSE <<prefix, StrOf(models[1].nfo)>>

\* PaginationLines with >= for >
PaginationLinesGeq(models, total_count, offset, limit) ==
    IF total_count >= Len(models)
    THEN << <<"# Showing ", IntStr(offset + 1), "-", IntStr(offset + Len(models)),
              " of ", IntStr(total_count), " records (limit=", IntStr(limit),
              ", offset=", IntStr(offset), ")">> >>
    ELSE <<>>

\* the pagination annotation of either formatter
PaginationLines(models, total_count, offset, limit) ==
    IF total_count > Len(models)
    THEN << <<"# Showing ", IntStr(offset + 1), "-", IntStr(offset + Len(models)),
              " of ", IntStr(total_count), " records (limit=", IntStr(limit),
              ", offset=", IntStr(offset), ")">> >>
    ELSE <<>>

\* the three-way spacing rule
DepthSpacing(depth) ==
    IF Val(depth) < 0 THEN Spaces(7)
    ELSE IF Val(depth) >= 10 * DepthUnit THEN Spaces(7)
    ELSE Spaces(8)

DepthStr(depth) ==
    IF Val(depth) < 0 THEN Fmt2(depth, 5)
    ELSE IF Val(depth) >= 10 * DepthUnit THEN Fmt2(depth, 5)
    ELSE Fmt2(depth, 4)

\* DataLine that tags the second line of a block in place of the first
DataLineTagSecond(model, i, tag) ==
    LET base == <<" ", Fmt2(model.velocity, 4), DepthSpacing(model.depth),
                  DepthStr(model.depth), "   001.000">>
    IN  IF i = 1 THEN base \o <<tag>> ELSE base

\* one data line of a block; i is the 0-based index within the block
DataLine(model, i, tag) ==
    LET base == <<" ", Fmt2(model.velocity, 4), DepthSpacing(model.depth),
                  DepthStr(model.depth), "   001.000">>
    IN  IF i = 0 THEN base \o <<tag>> ELSE base

DataLines(ms, tag) == [i \in 1..Len(ms) |-> DataLine(ms[i], i - 1, tag)]

PTag == "           P-VELOCITY MODEL"
STag == "           S-VELOCITY MODEL"
PDescriptor == "        vel,depth,vdamp,phase (f5.2,5x,f7.2,2x,f7.3,3x,a1)"

\* VPSection without the test for an empty subset
VPSectionAlways(models) ==
    LET vp == vp_models(models)
    IN  << <<" ", IntStr(Len(vp)), PDescriptor>> >> \o DataLines(vp, PTag)

VPSection(models) ==
    LET vp == vp_models(models)
    IN  IF vp # <<>>
        THEN << <<" ", IntStr(Len(vp)), PDescriptor>> >> \o DataLines(vp, PTag)
        ELSE <<>>

VSSection(models) ==
    LET vs == vs_models(models)
    IN  IF vs # <<>>
        THEN << <<" ", IntStr(Len(vs))>> >> \o DataLines(vs, STag)
        ELSE <<>>

\* Lines1D without the early return, its title falling back to "Unknown"
Lines1DNoEarlyReturn(models, bibref, total_count, offset, limit) ==
    (IF models = <<>>
     THEN << IF bibref # "" THEN <<"1D ", "Unknown", " ", bibref>>
             ELSE <<"1D ", "Unknown">> >>
     ELSE <<TitleLine("1D ", models, bibref)>>)
    \o PaginationLines(models, total_count, offset, limit)
    \o VPSection(models)
    \o VSSection(models)

\* the lines of the 1D response, before the join
Lines1D(models, bibref, total_count, offset, limit) ==
    IF models = <<>> THEN <<>>
    ELSE <<TitleLine("1D ", models, bibref)>>
         \o PaginationLines(models, total_count, offset, limit)
         \o VPSection(models)
         \o VSSection(models)

create_text_response_1d(models, bibref, total_count, offset, limit) ==
    Join(Lines1D(models, bibref, total_count, offset, limit))

(***************************************************************************)
(* create_text_response_3d                                                 *)
(***************************************************************************)
\* an absent scale factor (NULL, Python None) and a present one, in halves
None == <<>>
Some(h) == <<h>>
DefaultR == Some(2)

\* str() of a float of the 3D tables (halves): "-2.0", "1.5", "10.0"
GridRepr(h) ==
    LET a == IF h < 0 THEN 0 - h ELSE h
    IN  (IF h < 0 THEN "-" ELSE "") \o IntStr(a \div 2) \o "."
        \o (IF a % 2 = 1 THEN "5" ELSE "0")

\* any(model.r != 1.0 for model in models)
has_non_default_r(models) == \E i \in 1..Len(models) : models[i].r # DefaultR

show_r(models, include_r) == include_r /\ has_non_default_r(models)

VelocityName(wave_type) == IF wave_type = "VP" THEN "Vp" ELSE "Vs"

HeaderLine(models, wave_type, include_r) ==
    IF show_r(models, include_r)
    THEN <<"Longitude|Latitude|Depth|", VelocityName(wave_type), "|R">>
    ELSE <<"Longitude|Latitude|Depth|", VelocityName(wave_type)>>

\* model.vp if wave_type == "VP" else model.vs
VelocityOf(model, wave_type) == IF wave_type = "VP" THEN model.vp ELSE model.vs

\* model.r if model.r is not None else 1.0
r_value(model) == IF model.r # None THEN model.r[1] ELSE 2

\* GridRow with latitude written before longitude
GridRowLatFirst(model, wave_type, with_r) ==
    LET base == <<GridRepr(model.latitude), "|", GridRepr(model.longitude), "|",
                  GridRepr(model.depth), "|",
                  GridRepr(VelocityOf(model, wave_type))>>
    IN  IF with_r THEN base \o <<"|", GridRepr(r_value(model))>> ELSE base

GridRow(model, wave_type, with_r) ==
    LET base == <<GridRepr(model.longitude), "|", GridRepr(model.latitude), "|",
                  GridRepr(model.depth), "|",
                  GridRepr(VelocityOf(model, wave_type))>>
    IN  IF with_r THEN base \o <<"|", GridRepr(r_value(model))>> ELSE base

GridRows(models, wave_type, include_r) ==
    [i \in 1..Len(models) |->
        GridRow(models[i], wave_type, show_r(models, include_r))]

\* the lines of the 3D response, before the join
Lines3D(models, wave_type, include_r, bibref, total_count, offset, limit) ==
    IF models = <<>> THEN <<>>
    ELSE <<TitleLine("3D ", models, bibref)>>
         \o PaginationLines(models, total_count, offset, limit)
         \o <<HeaderLine(models, wave_type, include_r)>>
         \o GridRows(models, wave_type, include_r)

create_text_response_3d(models, wave_type, include_r, bibref, total_count, offset, limit) ==
    Join(Lines3D(models, wave_type, include_r, bibref, total_count, offset, limit))

(***************************************************************************)
(* The inputs of the formatter calls.                                      *)
(***************************************************************************)
SeqsUpTo(S, n) == UNION {[1..k -> S] : k \in 0..n}

\* default limit of both endpoints
DefaultLimit == 10000

NfoA == <<"N", "f", "o">>
NfoB == <<"a", "b">>
AuthA == <<"A", "b">>
AuthB == <<"a", "b", "c">>

\* a row of velocity_models_1d
Row1D(depth, velocity, wave_type, nfo, author) ==
    [depth |-> depth, velocity |-> velocity, wave_type |-> wave_type,
     nfo |-> nfo, author |-> author]

\* a row of velocity_models_3d_vp (field vp) or velocity_models_3d_vs (field vs)
Row3D(wave_type, longitude, latitude, depth, velocity, r, nfo, author) ==
    IF wave_type = "VP"
    THEN [longitude |-> longitude, latitude |-> latitude, depth |-> depth,
          vp |-> velocity, r |-> r, nfo |-> nfo, author |-> author]
    ELSE [longitude |-> longitude, latitude |-> latitude, depth |-> depth,
          vs |-> velocity, r |-> r, nfo |-> nfo, author |-> author]

\* stored wave types: the import stores str(Type).strip().upper() unchecked
WaveTypes == {"VP", "VS", "P"}

\* 5.75 and 8.0
Velocities == {F(FALSE, 1472), F(FALSE, 2048)}

\* -3.25, 0.0 and 12.5: the depths of the longer lists
ListDepths == {F(TRUE, 832), F(FALSE, 0), F(FALSE, 3200)}

\* -10.5, -3.25, -1/256, -0.0, 0.0, 0.125, 0.375, 5.0, 9.875, 9.99609375,
\* 10.0, 12.5, 100.0: the depths of the one-record lists
DepthSamples ==
    {F(TRUE, 2688), F(TRUE, 832), F(TRUE, 1), F(TRUE, 0), F(FALSE, 0),
     F(FALSE, 32), F(FALSE, 96), F(FALSE, 1280), F(FALSE, 2528), F(FALSE, 2559),
     F(FALSE, 2560), F(FALSE, 3200), F(FALSE, 25600)}

ListRecords ==
    {Row1D(d, v, w, NfoA, AuthA) : d \in ListDepths, v \in Velocities, w \in WaveTypes}

SampleRecords ==
    {Row1D(d, F(FALSE, 1472), w, NfoA, AuthA) : d \in DepthSamples, w \in {"VP", "VS"}}

PageRecords ==
    {Row1D(F(FALSE, 1280), F(FALSE, 1472), "VP", NfoA, AuthA),
     Row1D(F(FALSE, 0), F(FALSE, 2048), "VS", NfoB, AuthA)}

Bibrefs == {"", "Doe 2020"}
Limits == {0, 1, DefaultLimit}

Call1D(models, bibref, total_count, offset, limit) ==
    [fn |-> "1d", models |-> models, bibref |-> bibref,
     total_count |-> total_count, offset |-> offset, limit |-> limit]

Call3D(models, wave_type, include_r, bibref, total_count, offset, limit) ==
    [fn |-> "3d", models |-> models, wave_type |-> wave_type,
     include_r |-> include_r, bibref |-> bibref,
     total_count |-> total_count, offset |-> offset, limit |-> limit]

Calls1D ==
    {Call1D(ms, "", 0, 0, 0) : ms \in SeqsUpTo(ListRecords, MaxLen)}
    \cup {Call1D(<<m>>, "", 0, 0, 0) : m \in SampleRecords}
    \cup {Call1D(ms, b, t, o, l) :
            ms \in SeqsUpTo(PageRecords, MaxLen), b \in Bibrefs,
            t \in 0..MaxCount, o \in 0..MaxCount, l \in Limits}

\* two grid points, each with an absent, a default and a non-default R
GridRecords(wave_type) ==
    {Row3D(wave_type, 3, -4, 20, 13, r, NfoA, AuthA) : r \in {None, Some(2), Some(5)}}
    \cup {Row3D(wave_type, -1, 0, 1, 7, r, NfoB, AuthA) : r \in {None, Some(2), Some(5)}}

Calls3D ==
    {Call3D(ms, w, ir, "", 0, 0, 0) :
        ms \in SeqsUpTo(GridRecords("VP"), MaxLen), w \in {"VP"}, ir \in BOOLEAN}
    \cup {Call3D(ms, w, ir, "", 0, 0, 0) :
        ms \in SeqsUpTo(GridRecords("VS"), MaxLen), w \in {"VS"}, ir \in BOOLEAN}
    \cup {Call3D(ms, "VP", TRUE, b, t, o, l) :
            ms \in SeqsUpTo({Row3D("VP", 3, -4, 20, 13, Some(5), NfoA, AuthA)}, MaxLen),
            b \in Bibrefs, t \in 0..MaxCount, o \in 0..MaxCount, l \in Limits}

(***************************************************************************)
(* The stored tables, the queries and the import script.                   *)
(***************************************************************************)
\* most rows stored over all tables
MaxRows == 2
\* largest offset of a request
MaxOffset == 2

Min(a, b) == IF a < b THEN a ELSE b

\* lower-casing, over the letters the model's names are written in
Lower(c) ==
    CASE c = "A" -> "a" [] c = "B" -> "b" [] c = "C" -> "c" [] c = "N" -> "n"
      [] c = "P" -> "p" [] c = "S" -> "s" [] c = "V" -> "v" [] OTHER -> c

Upper(c) ==
    CASE c = "a" -> "A" [] c = "b" -> "B" [] c = "c" -> "C" [] c = "n" -> "N"
      [] c = "p" -> "P" [] c = "s" -> "S" [] c = "v" -> "V" [] c = "f" -> "F"
      [] c = "o" -> "O" [] OTHER -> c

\* column.ilike(f"%{pat}%"): pat occurs in s, letter case ignored
ILike(s, pat) ==
    \E i \in 0..(Len(s) - Len(pat)) :
        \A j \in 1..Len(pat) : Lower(s[i + j]) = Lower(pat[j])

\* str.strip()
RECURSIVE LStrip(_)
LStrip(cs) == IF cs # <<>> /\ Head(cs) = " " THEN LStrip(Tail(cs)) ELSE cs

RECURSIVE RStrip(_)
RStrip(cs) ==
    IF cs # <<>> /\ cs[Len(cs)] = " " THEN RStrip(SubSeq(cs, 1, Len(cs) - 1)) ELSE cs

Strip(cs) == RStrip(LStrip(cs))

\* str.upper()
UpperAll(cs) == [i \in 1..Len(cs) |-> Upper(cs[i])]

\* .filter(author.ilike, nfo.ilike) on velocity_models_1d
Matching1D(table, author, nfo) ==
    LET Hit(row) == ILike(row.author, author) /\ ILike(row.nfo, nfo)
    IN  SelectSeq(table, Hit)

\* .filter(author.ilike) on a 3D table
Matching3D(table, author) ==
    LET Hit(row) == ILike(row.author, author)
    IN  SelectSeq(table, Hit)

\* (longitude, latitude, depth) of a <= that of b
Key3DLeq(a, b) ==
    \/ a.longitude < b.longitude
    \/ a.longitude = b.longitude /\ a.latitude < b.latitude
    \/ a.longitude = b.longitude /\ a.latitude = b.latitude /\ a.depth <= b.depth

RECURSIVE InsertByKey3D(_, _)
InsertByKey3D(s, m) ==
    IF s = <<>> THEN <<m>>
    ELSE IF Key3DLeq(Head(s), m)
         THEN <<Head(s)>> \o InsertByKey3D(Tail(s), m)
         ELSE <<m>> \o s

RECURSIVE SortByKey3DFrom(_, _)
SortByKey3DFrom(done, rest) ==
    IF rest = <<>> THEN done
    ELSE SortByKey3DFrom(InsertByKey3D(done, Head(rest)), Tail(rest))

\* .order_by(longitude.asc(), latitude.asc(), depth.asc()); ties in row order
OrderBy3D(rows) == SortByKey3DFrom(<<>>, rows)

\* .order_by(depth.asc()); ties in row order
OrderBy1D(rows) == SortByDepth(rows)

\* .offset(offset).limit(limit)
Slice(rows, offset, limit) == SubSeq(rows, offset + 1, Min(offset + limit, Len(rows)))

\* get_bibref_for_author: the first row whose author matches, or ""
get_bibref_for_author(table, author) ==
    LET hits == SelectSeq(table, LAMBDA row : ILike(row.author, author))
    IN  IF hits # <<>> THEN hits[1].bibref ELSE ""

(***************************************************************************)
(* import_data.py: one run of the script is one transaction, visible to    *)
(* the server through its single commit.                                   *)
(***************************************************************************)
\* a numeric cell of a file: float(cell) returns val, or raises
Num(val) == [num |-> TRUE, val |-> val]
NotNum == [num |-> FALSE]

Raw1D(depth, velocity, type, nfo, author) ==
    [depth |-> depth, velocity |-> velocity, Type |-> type, NFO |-> nfo,
     Author |-> author]

\* .filter_by(depth, velocity, wave_type, nfo, author).first() finds a row
Exists1D(view, row) ==
    \E i \in 1..Len(view) :
        /\ Val(view[i].depth) = Val(row.depth)
        /\ Val(view[i].velocity) = Val(row.velocity)
        /\ view[i].wave_type = row.wave_type
        /\ view[i].nfo = row.nfo
        /\ view[i].author = row.author

\* the values read from a row whose numeric cells are numbers
Parse1D(raw) ==
    Row1D(raw.depth.val, raw.velocity.val, StrOf(UpperAll(Strip(raw.Type))),
          Strip(raw.NFO), Strip(raw.Author))

\* the row loop over the session's view (stored rows and rows added so far)
RECURSIVE Import1DRows(_, _)
Import1DRows(view, rest) ==
    IF rest = <<>> THEN [ok |-> TRUE, rows |-> view]
    ELSE LET raw == Head(rest)
         IN  IF ~raw.depth.num \/ ~raw.velocity.num THEN [ok |-> FALSE, rows |-> view]
             ELSE LET row == Parse1D(raw)
                  IN  IF Exists1D(view, row) THEN Import1DRows(view, Tail(rest))
                      ELSE Import1DRows(Append(view, row), Tail(rest))

\* import_1d_from_file run from start to end with no other run in between:
\* commit, or rollback on an exception
import_1d_from_file(table, file) ==
    LET res == Import1DRows(table, file)
    IN  IF res.ok THEN [ok |-> TRUE, table |-> res.rows]
        ELSE [ok |-> FALSE, table |-> table]

Raw3D(longitude, latitude, depth, velocity, r, nfo, author) ==
    [Longitude |-> longitude, Latitude |-> latitude, Depth |-> depth,
     V |-> velocity, R |-> r, NFO |-> nfo, Author |-> author]

\* .filter_by(longitude, latitude, depth, vp/vs, nfo, author).first() finds a row
Exists3D(view, row, wave_type) ==
    \E i \in 1..Len(view) :
        /\ view[i].longitude = row.longitude
        /\ view[i].latitude = row.latitude
        /\ view[i].depth = row.depth
        /\ VelocityOf(view[i], wave_type) = VelocityOf(row, wave_type)
        /\ view[i].nfo = row.nfo
        /\ view[i].author = row.author

\* the values read from a row, r_value being 1.0 when the R cell is empty
Parse3D(raw, wave_type) ==
    LET rv == IF raw.R # None THEN raw.R ELSE DefaultR
    IN  Row3D(wave_type, raw.Longitude.val, raw.Latitude, raw.Depth, raw.V, rv,
              Strip(raw.NFO), Strip(raw.Author))

RECURSIVE Import3DRows(_, _, _)
Import3DRows(view, rest, wave_type) ==
    IF rest = <<>> THEN [ok |-> TRUE, rows |-> view]
    ELSE LET raw == Head(rest)
         IN  IF ~raw.Longitude.num THEN [ok |-> FALSE, rows |-> view]
             ELSE LET row == Parse3D(raw, wave_type)
                  IN  IF Exists3D(view, row, wave_type)
                      THEN Import3DRows(view, Tail(rest), wave_type)
                      ELSE Import3DRows(Append(view, row), Tail(rest), wave_type)

import_3d_from_file(table, file, wave_type) ==
    LET res == Import3DRows(table, file, wave_type)
    IN  IF res.ok THEN [ok |-> TRUE, table |-> res.rows]
        ELSE [ok |-> FALSE, table |-> table]

\* AuthorBibref(author=..., bibref=...): a row with the two columns that
\* main.py and import_data.py read and write
AuthorBibref(author, bibref) == [author |-> author, bibref |-> bibref]

\* import_bibrefs_from_file: insert a new author, update the bibref of a known one
RECURSIVE ImportBibrefRows(_, _)
ImportBibrefRows(view, rest) ==
    IF rest = <<>> THEN view
    ELSE LET author == Strip(Head(rest).Author)
             bibref == StrOf(Strip(Head(rest).Bibref))
             known  == {i \in 1..Len(view) : view[i].author = author}
         IN  IF known # {}
             THEN LET k == CHOOSE i \in known : \A j \in known : i <= j
                  IN  ImportBibrefRows([view EXCEPT ![k].bibref = bibref], Tail(rest))
             ELSE ImportBibrefRows(
                      Append(view, AuthorBibref(author, bibref)), Tail(rest))

import_bibrefs_from_file(table, file) == ImportBibrefRows(table, file)

\* the rows of the imported files: " vp", "VS" and "p" rows, and a row whose
\* depth is no number
RawA == Raw1D(Num(F(FALSE, 0)), Num(F(FALSE, 1472)), <<" ", "v", "p">>, NfoA, AuthA)
RawB == Raw1D(Num(F(FALSE, 3200)), Num(F(FALSE, 2048)), <<"V", "S">>, NfoA, AuthB)
RawC == Raw1D(Num(F(FALSE, 1280)), Num(F(FALSE, 1472)), <<"p">>, NfoA, AuthA)
RawD == Raw1D(Num(F(FALSE, 5120)), Num(F(FALSE, 2048)), <<"v", "s">>, NfoA, AuthB)
RawX == Raw1D(NotNum, Num(F(FALSE, 1472)), <<"V", "P">>, NfoA, AuthA)

\* a grid point without R, the same point with R = 2.5, another point with
\* R = 1.0, and a row whose longitude is no number
RawG == Raw3D(Num(3), -4, 20, 13, None, NfoA, AuthA)
RawGr == Raw3D(Num(3), -4, 20, 13, Some(5), NfoA, AuthA)
RawH == Raw3D(Num(-1), 0, 1, 7, Some(2), NfoB, AuthB)
RawY == Raw3D(NotNum, 0, 1, 7, None, NfoB, AuthB)

RawDoe == [Author |-> AuthA, Bibref |-> <<"D", "o", "e", " ">>]
RawRoe == [Author |-> AuthA, Bibref |-> <<"R", "o", "e">>]
RawRoe2 == [Author |-> <<"a", "b", "c", " ">>, Bibref |-> <<"R", "o", "e">>]

\* the imported files
Files1D == {<<RawA>>, <<RawB>>, <<RawC>>, <<RawA, RawA>>, <<RawC, RawB>>, <<RawB, RawX>>}
Files3D == {<<RawG>>, <<RawGr>>, <<RawH>>, <<RawG, RawGr>>, <<RawH, RawY>>}
FilesBibref == {<<RawDoe>>, <<RawRoe>>, <<RawRoe2>>, <<RawDoe, RawRoe2>>}

(***************************************************************************)
(* State.                                                                  *)
(***************************************************************************)
VARIABLES
    table1d,      \* velocity_models_1d, committed rows in id order
    table3d,      \* velocity_models_3d_vp and _vs, committed rows in id order
    bibrefs,      \* the rows behind AuthorBibref, committed, in id order
    req,          \* the query parameters of the request being handled
    pc,           \* where its handler is
    total_count,  \* the handler's total_count
    models,       \* the handler's models
    session,      \* what happened to the handler's database session, in order
    raised,       \* what the handler's inner try block raised
    response,     \* the request's outcome
    imp,          \* the runs of the import script: file, row position, session
    fcall,        \* the arguments of the last formatter call
    fout          \* its result: not yet returned, or the lines and the text

tables == <<table1d, table3d>>
stored == <<table1d, table3d, bibrefs>>
handler == <<req, pc, total_count, models, session, raised, response>>
vars == <<table1d, table3d, bibrefs, req, pc, total_count, models, session,
          raised, response, imp, fcall, fout>>

NoReq == [kind |-> "none"]
NoCall == [fn |-> "none"]
NoResponse == [status |-> 0]
NoException == [type |-> "none"]
NoImport == [pc |-> "idle"]
Runs == {1, 2}
NoRuns == [p \in Runs |-> NoImport]
Pending == [done |-> FALSE]
Returned(lines) == [done |-> TRUE, lines |-> lines, text |-> Join(lines)]

StoredRows == Len(table1d) + Len(table3d["VP"]) + Len(table3d["VS"]) + Len(bibrefs)

EmptyTables ==
    /\ table1d = <<>>
    /\ table3d = [w \in {"VP", "VS"} |-> <<>>]
    /\ bibrefs = <<>>

Idle ==
    /\ req = NoReq
    /\ pc = "idle"
    /\ total_count = 0
    /\ models = <<>>
    /\ session = <<>>
    /\ raised = NoException
    /\ response = NoResponse

(***************************************************************************)
(* The formatters as pure functions: the arguments are drawn from the      *)
(* bounded sets above, one call is made and then the same call again.      *)
(***************************************************************************)
FmtInit ==
    /\ EmptyTables
    /\ Idle
    /\ imp = NoRuns
    /\ fcall \in Calls1D \cup Calls3D
    /\ fout = Pending

\* the lines a call returns for the record list ms and the other arguments
LinesOf(call, ms) ==
    IF call.fn = "1d"
    THEN Lines1D(ms, call.bibref, call.total_count, call.offset, call.limit)
    ELSE Lines3D(ms, call.wave_type, call.include_r, call.bibref,
                 call.total_count, call.offset, call.limit)

\* the list objects when create_text_response_1d returns: an empty list
\* returns before any list statement, any other runs the body
After1D(ms) == IF ms = <<>> THEN Entered(ms) ELSE Body1D(ms)

\* the list objects when create_text_response_3d returns: its statements
\* iterate models (any(...) and the row loop) and append to its own lines
\* list; none assigns to, sorts or rebinds a list it was given
After3D(ms) == Entered(ms)

\* the list objects when the call returns
AfterCall(call, ms) == IF call.fn = "1d" THEN After1D(ms) ELSE After3D(ms)

\* a returned call: its lines, the list objects it left behind, and the
\* caller's list (object 1) read back from them
ReturnedFrom(lines, st) ==
    [done |-> TRUE, lines |-> lines, text |-> Join(lines),
     heap |-> st.heap, frame |-> st.frame, models |-> st.heap[1],
     again |-> FALSE, text2 |-> ""]

Format1D ==
    /\ pc = "idle"
    /\ fcall.fn = "1d"
    /\ fout = Pending
    /\ fout' = ReturnedFrom(Lines1D(fcall.models, fcall.bibref, fcall.total_count,
                                    fcall.offset, fcall.limit),
                            After1D(fcall.models))
    /\ UNCHANGED <<stored, imp, handler, fcall>>

Format3D ==
    /\ pc = "idle"
    /\ fcall.fn = "3d"
    /\ fout = Pending
    /\ fout' = ReturnedFrom(Lines3D(fcall.models, fcall.wave_type, fcall.include_r,
                                    fcall.bibref, fcall.total_count, fcall.offset,
                                    fcall.limit),
                            After3D(fcall.models))
    /\ UNCHANGED <<stored, imp, handler, fcall>>

\* the caller calls the same formatter a second time with the same variables:
\* the list it passes is the object the first call left behind
FormatAgain ==
    /\ pc = "idle"
    /\ fout.done
    /\ ~fout.again
    /\ fout' = [fout EXCEPT !.again = TRUE,
                            !.text2 = Join(LinesOf(fcall, fout.models)),
                            !.heap = AfterCall(fcall, fout.models).heap,
                            !.frame = AfterCall(fcall, fout.models).frame,
                            !.models = AfterCall(fcall, fout.models).heap[1]]
    /\ UNCHANGED <<stored, imp, handler, fcall>>

FmtNext == Format1D \/ Format3D \/ FormatAgain

FmtSpec == FmtInit /\ [][FmtNext]_vars

(***************************************************************************)
(* The import script, statement by statement.  A run's duplicate queries   *)
(* read the committed rows and the run's own uncommitted ones; what a run  *)
(* adds stays in its session until the commit after the last row.  Runs    *)
(* of the script can overlap.                                              *)
(***************************************************************************)
ImportJobs ==
    {[kind |-> "1d", wave_type |-> "", file |-> f] : f \in Files1D}
    \cup {[kind |-> "3d", wave_type |-> w, file |-> f] :
              w \in {"VP", "VS"}, f \in Files3D}
    \cup {[kind |-> "bibref", wave_type |-> "", file |-> f] : f \in FilesBibref}

\* the committed rows of the table a job writes to
Target(job) ==
    IF job.kind = "1d" THEN table1d
    ELSE IF job.kind = "3d" THEN table3d[job.wave_type]
    ELSE bibrefs

\* what a query of the run's session sees: the committed rows with the
\* run's own changes to them, then the rows the run has added
View(run) ==
    LET t == Target(run.job)
        Changed(k) == \E u \in run.updates : u[1] = k
        NewBibref(k) == (CHOOSE u \in run.updates : u[1] = k)[2]
    IN  [k \in 1..Len(t) |->
            IF Changed(k) THEN [t[k] EXCEPT !.bibref = NewBibref(k)] ELSE t[k]]
        \o run.added

\* one pass of the row loop over the session's view
RowStep(job, view, raw) ==
    IF job.kind = "1d" THEN Import1DRows(view, <<raw>>)
    ELSE IF job.kind = "3d" THEN Import3DRows(view, <<raw>>, job.wave_type)
    ELSE [ok |-> TRUE, rows |-> ImportBibrefRows(view, <<raw>>)]

\* the run after a pass that left its session's view as rows
Stepped(run, rows) ==
    LET t == Target(run.job)
        view == View(run)
    IN  [run EXCEPT
            !.i = @ + 1,
            !.added = SubSeq(rows, Len(t) + 1, Len(rows)),
            !.updates = {<<k, rows[k].bibref>> :
                            k \in {j \in 1..Len(t) : rows[j] # t[j]}},
            !.imported_count = IF Len(rows) > Len(view) THEN @ + 1 ELSE @,
            !.skipped_count =
                IF run.job.kind # "bibref" /\ rows = view THEN @ + 1 ELSE @,
            !.updated_count =
                IF Len(rows) = Len(view) /\ rows # view THEN @ + 1 ELSE @]

\* except Exception: session.rollback(); return False
RolledBack(run) ==
    [run EXCEPT !.pc = "returned", !.success = FALSE, !.added = <<>>,
                !.updates = {}]

\* the rows the running imports may still store
RECURSIVE InFlight(_)
InFlight(runs) ==
    IF runs = {} THEN 0
    ELSE LET p == CHOOSE q \in runs : TRUE
             n == IF imp[p].pc = "rows"
                  THEN Len(imp[p].added) + Len(imp[p].job.file) - imp[p].i
                  ELSE 0
         IN  n + InFlight(runs \ {p})

\* python import_data.py <model_type> <file> [wave_type] starts and reads
\* the file; runs are numbered by the lowest free number
ImpStart(p, jobs, cap) ==
    /\ imp[p] = NoImport
    /\ \A q \in Runs : q < p => imp[q] # NoImport
    /\ \E job \in jobs :
          /\ StoredRows + InFlight(Runs) + Len(job.file) <= cap
          /\ imp' = [imp EXCEPT ![p] =
                        [pc |-> "rows", job |-> job, i |-> 0, added |-> <<>>,
                         updates |-> {}, imported_count |-> 0,
                         skipped_count |-> 0, updated_count |-> 0,
                         success |-> FALSE]]
    /\ UNCHANGED <<stored, handler, fcall, fout>>

\* ImpRow with the rows added so far committed when a row raises
ImpRowKeepAdded(p) ==
    /\ imp[p].pc = "rows"
    /\ imp[p].i < Len(imp[p].job.file)
    /\ LET run == imp[p]
           res == RowStep(run.job, View(run), run.job.file[run.i + 1])
       IN  IF res.ok
           THEN /\ imp' = [imp EXCEPT ![p] = Stepped(run, res.rows)]
                /\ UNCHANGED stored
           ELSE /\ imp' = [imp EXCEPT ![p] = RolledBack(run)]
                /\ table1d' = IF run.job.kind = "1d" THEN View(run) ELSE table1d
                /\ table3d' = IF run.job.kind = "3d"
                              THEN [table3d EXCEPT ![run.job.wave_type] = View(run)]
                              ELSE table3d
                /\ UNCHANGED bibrefs
    /\ UNCHANGED <<handler, fcall, fout>>

\* one row of the loop: the cells are read, the duplicate query runs on the
\* session's view, and the row is added to the session or skipped; a cell
\* that is no number raises
ImpRow(p) ==
    /\ imp[p].pc = "rows"
    /\ imp[p].i < Len(imp[p].job.file)
    /\ LET run == imp[p]
           res == RowStep(run.job, View(run), run.job.file[run.i + 1])
       IN  imp' = [imp EXCEPT ![p] = IF res.ok THEN Stepped(run, res.rows)
                                     ELSE RolledBack(run)]
    /\ UNCHANGED <<stored, handler, fcall, fout>>

\* a query or the commit raises a database error
ImpRaise(p) ==
    /\ imp[p].pc = "rows"
    /\ imp' = [imp EXCEPT ![p] = RolledBack(imp[p])]
    /\ UNCHANGED <<stored, handler, fcall, fout>>

\* session.commit() after the last row; return True
ImpCommit(p) ==
    /\ imp[p].pc = "rows"
    /\ imp[p].i = Len(imp[p].job.file)
    /\ LET run == imp[p]
       IN  /\ table1d' = IF run.job.kind = "1d" THEN View(run) ELSE table1d
           /\ table3d' = IF run.job.kind = "3d"
                         THEN [table3d EXCEPT ![run.job.wave_type] = View(run)]
                         ELSE table3d
           /\ bibrefs' = IF run.job.kind = "bibref" THEN View(run) ELSE bibrefs
           /\ imp' = [imp EXCEPT ![p] =
                         [run EXCEPT !.pc = "returned", !.success = TRUE,
                                     !.added = <<>>, !.updates = {}]]
    /\ UNCHANGED <<handler, fcall, fout>>

\* finally: session.close(); the script exits
ImpExit(p) ==
    /\ imp[p].pc = "returned"
    /\ imp' = [imp EXCEPT ![p] = NoImport]
    /\ UNCHANGED <<stored, handler, fcall, fout>>

(***************************************************************************)
(* The server: the /1d/ and /3d/ handlers over the stored tables, with the *)
(* import script committing to them.                                       *)
(***************************************************************************)
\* the files imported while the server runs
ServerJobs ==
    {[kind |-> "1d", wave_type |-> "", file |-> <<RawA>>],
     [kind |-> "3d", wave_type |-> "VP", file |-> <<RawH>>],
     [kind |-> "bibref", wave_type |-> "", file |-> <<RawDoe>>]}

AuthorPatterns == {<<"a", "b">>, <<"C">>}
NfoPatterns == {<<"n">>, <<"B">>}
ReqLimits == {1, DefaultLimit}

Requests ==
    {[kind |-> "1d", author |-> a, nfo |-> n, limit |-> l, offset |-> o] :
        a \in AuthorPatterns, n \in NfoPatterns, l \in ReqLimits, o \in 0..MaxOffset}
    \cup
    {[kind |-> "3d", wave_type |-> w, author |-> a, include_r |-> ir,
      limit |-> l, offset |-> o] :
        w \in {"VP", "VS"}, a \in AuthorPatterns, ir \in BOOLEAN,
        l \in ReqLimits, o \in 0..MaxOffset}

Init ==
    /\ EmptyTables
    /\ Idle
    /\ imp = NoRuns
    /\ fcall = NoCall
    /\ fout = Pending

\* the session's last event is a close()
Closed(log) == log # <<>> /\ log[Len(log)] = "close"

\* a request arrives: db = next(get_db()) makes the session, and the dropped
\* generator's finally calls db.close() on it at once
ReqStart ==
    /\ pc = "idle"
    /\ \E r \in Requests : req' = r
    /\ pc' = "count"
    /\ session' = <<"created", "close">>
    /\ total_count' = 0
    /\ models' = <<>>
    /\ raised' = NoException
    /\ response' = NoResponse
    /\ fcall' = NoCall
    /\ fout' = Pending
    /\ UNCHANGED <<stored, imp>>

\* the rows the request's filter matches, in the order of its order_by
Matching(r) ==
    IF r.kind = "1d" THEN OrderBy1D(Matching1D(table1d, r.author, r.nfo))
    ELSE OrderBy3D(Matching3D(table3d[r.wave_type], r.author))

NotFound(r) ==
    [status |-> 404,
     detail |-> IF r.kind = "1d"
                THEN "No data found for author: " \o StrOf(r.author)
                     \o " and NFO: " \o StrOf(r.nfo)
                ELSE "No " \o r.wave_type \o " data found for author: "
                     \o StrOf(r.author)]

BadOffset(r, count) ==
    [status |-> 400,
     detail |-> "Offset " \o IntStr(r.offset) \o " exceeds total records ("
                \o IntStr(count) \o "). Max offset: " \o IntStr(count - 1)]

\* raise HTTPException(status_code=..., detail=...)
HTTPRaised(error) == [type |-> "HTTPException", error |-> error]

\* str(e) of the exceptions a query or the session factory raises
ErrorMessages == {"boom", "no session"}

\* any other exception, with its str(e)
OtherRaised(msg) == [type |-> "Exception", msg |-> msg]

\* the outer try without its "except HTTPException: raise" clause
ErrorResponseAll500(e) ==
    [status |-> 500,
     detail |-> "Internal server error: "
                \o (IF e.type = "HTTPException" THEN e.error.detail ELSE e.msg)]

\* except HTTPException: raise / except Exception as e: raise HTTPException(500)
ErrorResponse(e) ==
    IF e.type = "HTTPException" THEN e.error
    ELSE [status |-> 500, detail |-> "Internal server error: " \o e.msg]

\* ReqCount with the two checks in the other order
ReqCountOffsetFirst ==
    /\ pc = "count"
    /\ LET count == Len(Matching(req))
       IN  /\ total_count' = count
           /\ IF req.offset >= count
              THEN /\ raised' = HTTPRaised(BadOffset(req, count))
                   /\ response' = ErrorResponse(raised')
                   /\ session' = session \o <<"sql", "close">>
                   /\ pc' = "done"
              ELSE IF count = 0
              THEN /\ raised' = HTTPRaised(NotFound(req))
                   /\ response' = ErrorResponse(raised')
                   /\ session' = session \o <<"sql", "close">>
                   /\ pc' = "done"
              ELSE /\ pc' = "fetch"
                   /\ session' = Append(session, "sql")
                   /\ UNCHANGED <<raised, response>>
    /\ UNCHANGED <<stored, imp, req, models, fcall, fout>>

\* the count query and the two checks on it; a raise runs finally: db.close()
ReqCount ==
    /\ pc = "count"
    /\ LET count == Len(Matching(req))
       IN  /\ total_count' = count
           /\ IF count = 0
              THEN /\ raised' = HTTPRaised(NotFound(req))
                   /\ response' = ErrorResponse(raised')
                   /\ session' = session \o <<"sql", "close">>
                   /\ pc' = "done"
              ELSE IF req.offset >= count
              THEN /\ raised' = HTTPRaised(BadOffset(req, count))
                   /\ response' = ErrorResponse(raised')
                   /\ session' = session \o <<"sql", "close">>
                   /\ pc' = "done"
              ELSE /\ pc' = "fetch"
                   /\ session' = Append(session, "sql")
                   /\ UNCHANGED <<raised, response>>
    /\ UNCHANGED <<stored, imp, req, models, fcall, fout>>

\* models = query.all()
ReqFetch ==
    /\ pc = "fetch"
    /\ models' = Slice(Matching(req), req.offset, req.limit)
    /\ pc' = "format"
    /\ session' = Append(session, "sql")
    /\ UNCHANGED <<stored, imp, req, total_count, raised, response, fcall, fout>>

\* the bibref query, the formatter call and the return; finally: db.close()
ReqFormat ==
    /\ pc = "format"
    /\ LET bibref == get_bibref_for_author(bibrefs, req.author)
           call   == IF req.kind = "1d"
                     THEN Call1D(models, bibref, total_count, req.offset, req.limit)
                     ELSE Call3D(models, req.wave_type, req.include_r, bibref,
                                 total_count, req.offset, req.limit)
           lines  == IF req.kind = "1d"
                     THEN Lines1D(models, bibref, total_count, req.offset, req.limit)
                     ELSE Lines3D(models, req.wave_type, req.include_r, bibref,
                                  total_count, req.offset, req.limit)
       IN  /\ fcall' = call
           /\ fout' = Returned(lines)
           /\ response' = [status |-> 200, content |-> Join(lines)]
    /\ session' = session \o <<"sql", "close">>
    /\ pc' = "done"
    /\ UNCHANGED <<stored, imp, req, total_count, models, raised>>

\* ReqFail with db.close() at the end of the try block instead of in finally
ReqFailNoClose ==
    /\ pc \in {"count", "fetch", "format"}
    /\ \E msg \in ErrorMessages : raised' = OtherRaised(msg)
    /\ response' = ErrorResponse(raised')
    /\ pc' = "done"
    /\ UNCHANGED <<stored, imp, req, total_count, models, session, fcall, fout>>

\* a query or the formatter raises something other than HTTPException:
\* finally: db.close(), then the 500
ReqFail ==
    /\ pc \in {"count", "fetch", "format"}
    /\ \E msg \in ErrorMessages : raised' = OtherRaised(msg)
    /\ response' = ErrorResponse(raised')
    /\ session' = Append(session, "close")
    /\ pc' = "done"
    /\ UNCHANGED <<stored, imp, req, total_count, models, fcall, fout>>

\* next(get_db()) raises: no session exists, the outer except gives the 500
ReqStartFail ==
    /\ pc = "idle"
    /\ \E r \in Requests : req' = r
    /\ \E msg \in ErrorMessages : raised' = OtherRaised(msg)
    /\ response' = ErrorResponse(raised')
    /\ pc' = "done"
    /\ fcall' = NoCall
    /\ fout' = Pending
    /\ UNCHANGED <<stored, imp, total_count, models, session>>

\* the response is delivered
ReqDone ==
    /\ pc = "done"
    /\ pc' = "idle"
    /\ req' = NoReq
    /\ total_count' = 0
    /\ models' = <<>>
    /\ session' = <<>>
    /\ raised' = NoException
    /\ response' = NoResponse
    /\ fcall' = NoCall
    /\ fout' = Pending
    /\ UNCHANGED <<stored, imp>>

Next ==
    \/ \E p \in Runs : ImpStart(p, ServerJobs, MaxRows)
    \/ \E p \in Runs : ImpRow(p)
    \/ \E p \in Runs : ImpRaise(p)
    \/ \E p \in Runs : ImpCommit(p)
    \/ \E p \in Runs : ImpExit(p)
    \/ ReqStart
    \/ ReqCount
    \/ ReqFetch
    \/ ReqFormat
    \/ ReqFail
    \/ ReqStartFail
    \/ ReqDone

Spec == Init /\ [][Next]_vars

(***************************************************************************)
(* The server over a 1D table that three imports have filled, with one     *)
(* more import to come.                                                    *)
(***************************************************************************)
RaceTable ==
    import_1d_from_file(import_1d_from_file(<<>>, <<RawA>>).table,
                        <<RawC, RawB>>).table

RaceInit ==
    /\ table1d = RaceTable
    /\ table3d = [w \in {"VP", "VS"} |-> <<>>]
    /\ bibrefs = <<>>
    /\ Idle
    /\ imp = NoRuns
    /\ fcall = NoCall
    /\ fout = Pending

\* the file imported while the requests run: one more matching row
RaceJobs == {[kind |-> "1d", wave_type |-> "", file |-> <<RawD>>]}

RaceNext ==
    \/ \E p \in Runs : ImpStart(p, RaceJobs, Len(RaceTable) + 1)
    \/ \E p \in Runs : ImpRow(p)
    \/ \E p \in Runs : ImpRaise(p)
    \/ \E p \in Runs : ImpCommit(p)
    \/ \E p \in Runs : ImpExit(p)
    \/ ReqStart
    \/ ReqCount
    \/ ReqFetch
    \/ ReqFormat
    \/ ReqFail
    \/ ReqStartFail
    \/ ReqDone

RaceSpec == RaceInit /\ [][RaceNext]_vars

ImportNext ==
    \/ \E p \in Runs : ImpStart(p, ImportJobs, MaxRows)
    \/ \E p \in Runs : ImpRow(p)
    \/ \E p \in Runs : ImpRaise(p)
    \/ \E p \in Runs : ImpCommit(p)
    \/ \E p \in Runs : ImpExit(p)

ImportSpec == Init /\ [][ImportNext]_vars

(***************************************************************************)
(* Properties of the endpoints.                                            *)
(***************************************************************************)
\* C1: in both handlers a count of 0 ends the request with 404; otherwise an
\* offset >= total_count ends it with 400, the detail naming total_count - 1
\* as the largest offset; otherwise the formatter is called, and every
\* formatter call of a handler has offset < total_count.  The 404 check comes
\* first: a count of 0 never gives 400.
C1_CountChecks ==
    /\ (pc = "done" /\ response.status # 500) =>
          /\ (response.status = 404) <=> (total_count = 0)
          /\ (response.status = 400) <=> (total_count > 0 /\ req.offset >= total_count)
          /\ (response.status = 200) <=> (total_count > 0 /\ req.offset < total_count)
          /\ response.status = 400 =>
                response.detail = "Offset " \o IntStr(req.offset)
                    \o " exceeds total records (" \o IntStr(total_count)
                    \o "). Max offset: " \o IntStr(total_count - 1)
          /\ response.status = 200 => fcall.fn = req.kind /\ fout.done
          /\ response.status # 200 => fcall = NoCall
    /\ pc \in {"fetch", "format"} => (total_count > 0 /\ req.offset < total_count)
    /\ fcall # NoCall =>
          /\ fcall.offset < fcall.total_count
          /\ fcall.offset = req.offset
          /\ fcall.total_count = total_count

\* a request whose offset is not below a positive count has been rejected
C1_Witness ==
    /\ pc = "done"
    /\ response.status = 400
    /\ total_count > 0
    /\ req.offset >= total_count

(***************************************************************************)
(* Properties of the formatters, read off the returned lines.              *)
(***************************************************************************)
IsPagination(l) == l[1] = "# Showing "
IsData(l) == Len(l) >= 5 /\ l[5] = "   001.000"
IsPCount(l) == Len(l) = 3 /\ l[1] = " " /\ l[3] = PDescriptor
IsSCount(l) == Len(l) = 2 /\ l[1] = " "

\* the lines at the indices that satisfy Keep, in order
Pick(lines, Keep(_)) ==
    LET idx == SelectSeq([i \in 1..Len(lines) |-> i], Keep)
    IN  [k \in 1..Len(idx) |-> lines[idx[k]]]

PCountIdx(lines) == {i \in 1..Len(lines) : IsPCount(lines[i])}
SCountIdx(lines) == {i \in 1..Len(lines) : IsSCount(lines[i])}

\* the data lines between the P count line and the S count line
PData(lines) ==
    Pick(lines, LAMBDA i : /\ IsData(lines[i])
                           /\ \E p \in PCountIdx(lines) : p < i
                           /\ \A s \in SCountIdx(lines) : i < s)

\* the data lines after the S count line
SData(lines) ==
    Pick(lines, LAMBDA i : /\ IsData(lines[i])
                           /\ \E s \in SCountIdx(lines) : s < i)

\* C2: in both formatters, for a non-empty record list, the pagination
\* annotation is in the output exactly when total_count > len(models); it is
\* then the second line and reads "# Showing {offset+1}-{offset+len(models)} of
\* {total_count} records (limit={limit}, offset={offset})".
C2_PaginationLine ==
    (fout.done /\ fcall.models # <<>>) =>
        LET lines == fout.lines
            n     == Len(fcall.models)
            pages == {i \in 1..Len(lines) : IsPagination(lines[i])}
        IN  /\ (pages # {}) <=> (fcall.total_count > n)
            /\ pages # {} =>
                  /\ pages = {2}
                  /\ Text(lines[2]) =
                        "# Showing " \o IntStr(fcall.offset + 1) \o "-"
                        \o IntStr(fcall.offset + n) \o " of "
                        \o IntStr(fcall.total_count) \o " records (limit="
                        \o IntStr(fcall.limit) \o ", offset="
                        \o IntStr(fcall.offset) \o ")"

\* a 3D call with fewer records than total_count and an offset has returned
C2_Witness ==
    /\ fout.done
    /\ fcall.fn = "3d"
    /\ Len(fcall.models) = 2
    /\ fcall.total_count > 2
    /\ fcall.offset > 0
    /\ Len(fout.lines) = 5

\* the header and the rows of a 3D response
IsGridHeader(l) == l[1] = "Longitude|Latitude|Depth|"
GridHeaderIdx(lines) == {i \in 1..Len(lines) : IsGridHeader(lines[i])}
HeaderHasR(l) == Len(l) = 3 /\ l[3] = "|R"
RowHasR(l) == Len(l) = 9 /\ l[8] = "|"

\* C3: in the grid formatter, for a non-empty record list, the R column is in
\* the header and in every row if and only if include_r is true and some
\* record has a scale factor other than 1.0, an absent scale factor counting
\* as 1.0; in particular include_r = true with every record at 1.0 or absent
\* gives no "|R" anywhere.
C3_RColumnIffNonDefault ==
    (fout.done /\ fcall.fn = "3d" /\ fcall.models # <<>>) =>
        LET lines == fout.lines
            ms    == fcall.models
            want  == /\ fcall.include_r
                     /\ \E i \in 1..Len(ms) : ms[i].r # None /\ ms[i].r # Some(2)
        IN  \A h \in GridHeaderIdx(lines) :
                /\ HeaderHasR(lines[h]) <=> want
                /\ \A i \in (h + 1)..Len(lines) : RowHasR(lines[i]) <=> want

\* C4: in the profile formatter the P-wave and S-wave subsets partition the
\* input: every input record is one data line, and the value of the P count
\* line plus the value of the S count line is len(models), whatever the
\* stored wave_type strings are.
C4_Partition ==
    (fout.done /\ fcall.fn = "1d") =>
        LET lines  == fout.lines
            pcount == Len(PData(lines))
            scount == Len(SData(lines))
        IN  /\ Cardinality({i \in 1..Len(lines) : IsData(lines[i])}) = Len(fcall.models)
            /\ \A i \in PCountIdx(lines) : lines[i][2] = IntStr(pcount)
            /\ \A i \in SCountIdx(lines) : lines[i][2] = IntStr(scount)
            /\ pcount + scount = Len(fcall.models)

\* Rule holds of every data line of both blocks and the record it renders:
\* line k of a block renders record k of the block's depth-sorted subset
ForEachDataLine(call, lines, Rule(_, _)) ==
    /\ Len(PData(lines)) = Len(vp_models(call.models))
    /\ Len(SData(lines)) = Len(vs_models(call.models))
    /\ \A k \in 1..Len(PData(lines)) : Rule(PData(lines)[k], vp_models(call.models)[k])
    /\ \A k \in 1..Len(SData(lines)) : Rule(SData(lines)[k], vs_models(call.models)[k])

\* C5: in the profile formatter a depth < 0 or >= 10 is rendered as 7 spaces
\* and a field of exactly 5 characters, a depth in [0, 10) as 8 spaces and a
\* field of exactly 4 characters, so that spacing and field always take 12
\* characters, also for depths that round upward at two decimals and for
\* depths <= -10 or >= 100.
C5_DepthWidthRule ==
    (fout.done /\ fcall.fn = "1d") =>
        ForEachDataLine(fcall, fout.lines,
            LAMBDA l, m :
                /\ Len(l[3]) + Len(l[4]) = 12
                /\ IF Val(m.depth) < 0 \/ Val(m.depth) >= 10 * DepthUnit
                   THEN Len(l[3]) = 7 /\ Len(l[4]) = 5
                   ELSE Len(l[3]) = 8 /\ Len(l[4]) = 4)

\* C6: in the profile formatter a record of depth -0.0 is rendered by the
\* negative branch, 7 spaces and the 5-character field "-0.00", in the P block
\* and in the S block.
C6_NegativeZeroBranch ==
    (fout.done /\ fcall.fn = "1d") =>
        ForEachDataLine(fcall, fout.lines,
            LAMBDA l, m :
                m.depth = F(TRUE, 0) => (l[3] = Spaces(7) /\ l[4] = "-0.00"))

\* the place of record j of sub in the stable ascending order by depth
StableRank(sub, j) ==
    Cardinality({i \in 1..Len(sub) :
        \/ Val(sub[i].depth) < Val(sub[j].depth)
        \/ Val(sub[i].depth) = Val(sub[j].depth) /\ i <= j})

\* block shows the records of sub, each at its stable rank
ShowsInStableOrder(block, sub) ==
    /\ Len(block) = Len(sub)
    /\ \A j \in 1..Len(sub) :
          LET l == block[StableRank(sub, j)]
          IN  /\ l[2] = Fmt2(sub[j].velocity, 4)
              /\ l[3] \o l[4] = DepthSpacing(sub[j].depth) \o DepthStr(sub[j].depth)

\* C7: in the profile formatter the data lines of each block are in
\* non-decreasing depth order and records of equal depth keep their input
\* order; the P block and the S block are ordered independently.
C7_StableDepthOrder ==
    (fout.done /\ fcall.fn = "1d") =>
        /\ ShowsInStableOrder(PData(fout.lines), SelectWave(fcall.models, "VP"))
        /\ ShowsInStableOrder(SData(fout.lines), SelectWave(fcall.models, "VS"))

\* a call has returned whose P records hold two of equal depth and different
\* velocity, followed by one of smaller depth
C7_Witness ==
    /\ fout.done
    /\ fcall.fn = "1d"
    /\ LET sub == SelectWave(fcall.models, "VP")
       IN  /\ Len(sub) = 3
           /\ Val(sub[1].depth) = Val(sub[2].depth)
           /\ sub[1].velocity # sub[2].velocity
           /\ Val(sub[3].depth) < Val(sub[1].depth)

\* C8: in the profile formatter a block, its count line and its data lines,
\* is emitted if and only if its subset is not empty: S-wave records alone
\* give no P count line, P-wave records alone give no S count line, and with
\* both the P block comes before the S block.
C8_BlockIffNonEmpty ==
    (fout.done /\ fcall.fn = "1d" /\ fcall.models # <<>>) =>
        LET lines == fout.lines
            hasP  == \E i \in 1..Len(fcall.models) : fcall.models[i].wave_type = "VP"
            hasS  == \E i \in 1..Len(fcall.models) : fcall.models[i].wave_type = "VS"
        IN  /\ Cardinality(PCountIdx(lines)) = IF hasP THEN 1 ELSE 0
            /\ Cardinality(SCountIdx(lines)) = IF hasS THEN 1 ELSE 0
            /\ (PData(lines) # <<>>) <=> hasP
            /\ (SData(lines) # <<>>) <=> hasS
            /\ \A p \in PCountIdx(lines), s \in SCountIdx(lines) : p < s
            /\ Len(PData(lines)) + Len(SData(lines))
                  = Cardinality({i \in 1..Len(lines) : IsData(lines[i])})
            /\ Len(lines) = 1 + Cardinality({i \in 1..Len(lines) : IsPagination(lines[i])})
                  + Cardinality(PCountIdx(lines)) + Len(PData(lines))
                  + Cardinality(SCountIdx(lines)) + Len(SData(lines))

\* a call with S-wave records and no P-wave record has returned
C8_Witness ==
    /\ fout.done
    /\ fcall.fn = "1d"
    /\ Len(fcall.models) = 2
    /\ \A i \in 1..Len(fcall.models) : fcall.models[i].wave_type = "VS"
    /\ Len(fout.lines) = 4

\* C9: in the profile formatter every data line carries "   001.000" right
\* after the depth field; the first data line of the P block also carries
\* "P-VELOCITY MODEL", the first of the S block "S-VELOCITY MODEL", and no
\* other line carries a tag.
C9_LiteralAndTag ==
    (fout.done /\ fcall.fn = "1d") =>
        LET lines == fout.lines
            Shape(block, tag) ==
                \A k \in 1..Len(block) :
                    /\ Len(block[k]) = IF k = 1 THEN 6 ELSE 5
                    /\ Text(block[k]) =
                          " " \o block[k][2] \o block[k][3] \o block[k][4]
                          \o "   001.000" \o (IF k = 1 THEN tag ELSE "")
        IN  /\ ForEachDataLine(fcall, lines,
                   LAMBDA l, m : /\ l[2] = Fmt2(m.velocity, 4)
                                 /\ l[4] = DepthStr(m.depth)
                                 /\ l[5] = "   001.000")
            /\ Shape(PData(lines), "           P-VELOCITY MODEL")
            /\ Shape(SData(lines), "           S-VELOCITY MODEL")
            /\ \A i \in 1..Len(lines) :
                  ~IsData(lines[i]) =>
                      \A j \in 1..Len(lines[i]) : lines[i][j] \notin {PTag, STag}

\* a call with two P-wave records and one S-wave record has returned
C9_Witness ==
    /\ fout.done
    /\ fcall.fn = "1d"
    /\ Len(SelectWave(fcall.models, "VP")) = 2
    /\ Len(SelectWave(fcall.models, "VS")) = 1
    /\ Len(PData(fout.lines)) = 2
    /\ Len(SData(fout.lines)) = 1

\* C10: both formatters return the empty string for an empty record list,
\* whatever the reference string, the wave type, include_r and the pagination
\* counters are: no title, no annotation, no header.
C10_EmptyInput ==
    (fout.done /\ fcall.models = <<>>) => (fout.lines = <<>> /\ fout.text = "")

\* a 3D call with no record, a reference, include_r and a total has returned
C10_Witness ==
    /\ fout.done
    /\ fcall.fn = "3d"
    /\ fcall.models = <<>>
    /\ fcall.include_r
    /\ fcall.bibref # ""
    /\ fcall.total_count > 0

\* C11: in the grid formatter the body has one row per input record, in input
\* order, with longitude, latitude, depth and velocity (vp for wave type VP,
\* vs otherwise) in that order; when the R column is shown, a record without
\* a scale factor shows 1.0 and every other record its own scale factor.
C11_GridRows ==
    (fout.done /\ fcall.fn = "3d" /\ fcall.models # <<>>) =>
        LET lines == fout.lines
            ms    == fcall.models
            Vel(m) == IF fcall.wave_type = "VP" THEN m.vp ELSE m.vs
            Cells(m) == GridRepr(m.longitude) \o "|" \o GridRepr(m.latitude) \o "|"
                        \o GridRepr(m.depth) \o "|" \o GridRepr(Vel(m))
            RCell(m) == IF m.r = None THEN "1.0" ELSE GridRepr(m.r[1])
        IN  \A h \in GridHeaderIdx(lines) :
                /\ Len(lines) = h + Len(ms)
                /\ \A i \in 1..Len(ms) :
                      Text(lines[h + i]) =
                          IF HeaderHasR(lines[h])
                          THEN Cells(ms[i]) \o "|" \o RCell(ms[i])
                          ELSE Cells(ms[i])

\* a call that shows the R column for a record with a scale factor followed
\* by a different record without one has returned
C11_Witness ==
    /\ fout.done
    /\ fcall.fn = "3d"
    /\ Len(fcall.models) = 2
    /\ fcall.models[1].r = Some(5)
    /\ fcall.models[2].r = None
    /\ fcall.models[1].longitude # fcall.models[2].longitude
    /\ \E h \in GridHeaderIdx(fout.lines) : HeaderHasR(fout.lines[h])

\* the steps a handler takes, as pairs of positions
HandlerSteps ==
    {<<"idle", "count">>, <<"idle", "done">>, <<"count", "fetch">>,
     <<"count", "done">>, <<"fetch", "format">>, <<"fetch", "done">>,
     <<"format", "done">>, <<"done", "idle">>}

\* C12: every /1d/ and /3d/ request ends in exactly one of success (200 with
\* the formatter output), not-found (404), bad-request (400) or internal-error
\* (500); a 404 or 400 raised inside the handler is delivered as raised, never
\* as a 500; every other failure gives a 500; no outcome is retried: once the
\* outcome exists the handler runs no further step but its delivery, and the
\* handler never goes back to an earlier step.
C12_Outcomes ==
    /\ [](/\ pc # "done" => response = NoResponse
          /\ pc = "done" =>
                /\ response.status \in {200, 404, 400, 500}
                /\ (response.status = 200) <=> (raised = NoException)
                /\ response.status = 200 =>
                      fout.done /\ response.content = fout.text
                /\ raised.type = "HTTPException" =>
                      response = raised.error /\ response.status \in {404, 400}
                /\ (raised.type = "Exception") <=> (response.status = 500))
    /\ [][/\ pc' # pc => <<pc, pc'>> \in HandlerSteps
          /\ response # NoResponse =>
                \/ UNCHANGED <<handler, fcall, fout>>
                \/ pc' = "idle" /\ response' = NoResponse]_vars

\* a request has ended with the 400 its handler raised
C12_Witness ==
    /\ pc = "done"
    /\ raised.type = "HTTPException"
    /\ response.status = 400
    /\ total_count > 0

\* C15: in both handlers the session a request opened is closed before the
\* response or the error is delivered, on the success, 404, 400 and exception
\* paths alike; no request ends with its session open.
C15_SessionClosed ==
    /\ (pc = "done" \/ response # NoResponse) => (session = <<>> \/ Closed(session))
    /\ (pc = "done" /\ session = <<>>) =>
          (response.status = 500 /\ total_count = 0 /\ models = <<>>)
    /\ pc \in {"count", "fetch", "format"} =>
          (session # <<>> /\ session[1] = "created")
    /\ pc = "idle" => session = <<>>

\* a request whose fetch or formatting failed has ended with its session closed
C15_Witness ==
    /\ pc = "done"
    /\ response.status = 500
    /\ total_count > 0
    /\ Closed(session)
    /\ \E k \in 1..Len(session) : session[k] = "sql"

\* C13: neither formatter mutates its arguments: after a call the list object
\* the caller passed has the same elements in the same order as before it,
\* every list the call sorted is another object than that one (the depth sort
\* is applied to copies), and a second call with the same arguments, reading
\* the list as the first call left it, returns the same text.
C13_ArgumentsUntouched ==
    fout.done =>
        /\ fout.heap[1] = fcall.models
        /\ fout.models = fcall.models
        /\ fout.frame.models = 1
        /\ fout.frame.vp_models # fout.frame.models
        /\ fout.frame.vs_models # fout.frame.models
        /\ fout.again => fout.text2 = fout.text

\* a 1D call whose P-wave records arrived deeper-first was made twice: the
\* sort reordered the list bound to vp_models, which is not the caller's
C13_Witness ==
    /\ fout.done
    /\ fout.again
    /\ fcall.fn = "1d"
    /\ Len(fcall.models) >= 2
    /\ fcall.models[1].wave_type = "VP"
    /\ fcall.models[2].wave_type = "VP"
    /\ Val(fcall.models[1].depth) > Val(fcall.models[2].depth)
    /\ fout.frame.vp_models > 1
    /\ fout.heap[fout.frame.vp_models] = SortByDepth(fcall.models)
    /\ fout.heap[fout.frame.vp_models] # fcall.models
    /\ fout.text # ""

\* C14: during an import of a 1D or 3D file a row is skipped as a duplicate
\* if and only if a stored row, or a row added earlier in the same import,
\* equals it on all of its fields (for 3D including the scale factor R);
\* every other row is inserted.
C14_ExactDuplicates ==
    [][\A p \in Runs :
        (/\ imp[p].pc = "rows"
         /\ imp'[p].pc = "rows"
         /\ imp'[p].i = imp[p].i + 1
         /\ imp[p].job.kind \in {"1d", "3d"}) =>
           LET run == imp[p]
               raw == run.job.file[run.i + 1]
               row == IF run.job.kind = "1d" THEN Parse1D(raw)
                      ELSE Parse3D(raw, run.job.wave_type)
               same == \E k \in 1..Len(View(run)) : View(run)[k] = row
           IN  /\ (imp'[p].skipped_count = run.skipped_count + 1) <=> same
               /\ imp'[p].added = IF same THEN run.added
                                  ELSE Append(run.added, row)]_vars

\* C17: an import is all-or-nothing: when a row raises, the import rolls
\* back and returns failure, and no step of it has changed the stored tables
\* (no row of the file is persisted); the stored tables change in no step of
\* an import but the single commit after its last row, which stores the
\* session's rows.
C17_AllOrNothing ==
    /\ [](\A p \in Runs :
             (imp[p].pc = "returned" /\ ~imp[p].success) =>
                 (imp[p].added = <<>> /\ imp[p].updates = {}))
    /\ [][/\ \A p \in Runs :
                (imp[p].pc = "rows" /\ imp'[p].pc = "returned"
                 /\ ~imp'[p].success) => stored' = stored
          /\ stored' # stored =>
                \E p \in Runs :
                    /\ imp[p].pc = "rows"
                    /\ imp[p].i = Len(imp[p].job.file)
                    /\ imp'[p].pc = "returned"
                    /\ imp'[p].success
                    /\ Target(imp[p].job)' = View(imp[p])
                    /\ \A q \in Runs \ {p} : imp'[q] = imp[q]]_vars

\* an import that had added a row to its session failed on the next row and
\* returned with nothing stored
C17_Witness ==
    \E p \in Runs :
        /\ imp[p].pc = "returned"
        /\ ~imp[p].success
        /\ imp[p].imported_count = 1
        /\ imp[p].i = 1
        /\ Len(imp[p].job.file) = 2
        /\ Target(imp[p].job) = <<>>

\* C16: whenever a /1d/ or /3d/ response has a pagination annotation
\* "# Showing a-b of N", it has 1 <= a <= b <= N, also when an import commits
\* matching rows between the handler's count query and its fetch query.
C16_AnnotationBounds ==
    (pc = "done" /\ response.status = 200) =>
        \A i \in 1..Len(fout.lines) :
            IsPagination(fout.lines[i]) =>
                \E a, b, N \in 0..(StoredRows + MaxOffset + 1) :
                    /\ fout.lines[i][2] = IntStr(a)
                    /\ fout.lines[i][4] = IntStr(b)
                    /\ fout.lines[i][6] = IntStr(N)
                    /\ 1 <= a
                    /\ a <= b
                    /\ b <= N

====
